---- MODULE Spec2Model ----
(***************************************************************************)
(* Model of the arena-escrow contract (contracts/arena-escrow/src).         *)
(* One action per execute entry point; every failed call is an action that  *)
(* changes nothing but the recorded response (the transaction is reverted). *)
(***************************************************************************)
EXTENDS Integers, Sequences, FiniteSets, TLC

VARIABLES BALANCE, DUE, INITIAL_DUE, IS_FUNDED, IS_LOCKED, TOTAL_BALANCE,
          PRESET_DISTRIBUTION, owner, response, custody

\* arena-league-module, instantiate_rounds: its input, its locals, the stored
\* rounds and the position of the call
VARIABLES team_count, team_indexes, rounds, wager_id, match_number, ROUNDS, pc

\* the state of a league call
league == <<team_count, team_indexes, rounds, wager_id, match_number, ROUNDS, pc>>

vars == <<BALANCE, DUE, INITIAL_DUE, IS_FUNDED, IS_LOCKED, TOTAL_BALANCE,
          PRESET_DISTRIBUTION, owner, response, custody, league>>

\* no league is being instantiated
league_idle ==
    /\ team_count = 0
    /\ team_indexes = <<>>
    /\ rounds = <<>>
    /\ wager_id = 0
    /\ match_number = 0
    /\ ROUNDS = <<>>
    /\ pc = "idle"

\* the persisted slots and collections of the escrow (everything but the response)
store == <<BALANCE, DUE, INITIAL_DUE, IS_FUNDED, IS_LOCKED, TOTAL_BALANCE,
           PRESET_DISTRIBUTION, owner>>

----------------------------------------------------------------------------
\* Bounds

\* largest native amount a party can owe or attach to one call
MaxNative == 3

\* largest native amount of TOTAL_BALANCE explored
MaxTotal == 6

\* largest number of teams a league is instantiated with
MaxTeams == 7

\* largest competition count the wager module reports to a league
MaxWagerId == 2

----------------------------------------------------------------------------
\* Addresses and asset bundles

Core == "core"

\* the two competitors and the governance contract
Addrs == {"a", "b", Core}

\* ascending key order of the storage iterator
AddrOrder == <<"a", "b", Core>>

\* parties that instantiate may put in the Due map
DueParties == {"a", "b"}

\* amounts of the single cw20 contract modelled
Cw20Amounts == 0..1

\* token ids of the single cw721 collection modelled
TokenIds == {1}

\* native funds that may accompany a Receive / ReceiveNft call
AttachedFunds == 0..1

\* BalanceVerified: native coins, cw20 coins, cw721 tokens
BalanceVerified_new == [native |-> 0, cw20 |-> 0, cw721 |-> {}]

is_empty(b) == b.native = 0 /\ b.cw20 = 0 /\ b.cw721 = {}

checked_add(x, y) ==
    [native |-> x.native + y.native,
     cw20   |-> x.cw20 + y.cw20,
     cw721  |-> x.cw721 \cup y.cw721]

\* checked_sub succeeds iff no component would go negative
can_sub(x, y) ==
    /\ y.native <= x.native
    /\ y.cw20 <= x.cw20
    /\ y.cw721 \subseteq x.cw721

checked_sub(x, y) ==
    [native |-> x.native - y.native,
     cw20   |-> x.cw20 - y.cw20,
     cw721  |-> x.cw721 \ y.cw721]

\* Option<T> as a set with at most one element
None == {}
Some(x) == {x}
unwrap(o) == CHOOSE x \in o : TRUE

\* Map helpers: a Map is a function whose domain is the set of stored keys
EmptyMap == [k \in {} |-> BalanceVerified_new]
has(m, k) == k \in DOMAIN m
save(m, k, v) == [x \in (DOMAIN m) \cup {k} |-> IF x = k THEN v ELSE m[x]]
remove(m, k) == [x \in (DOMAIN m) \ {k} |-> m[x]]
load_or_default(m, k) == IF has(m, k) THEN m[k] ELSE BalanceVerified_new

\* outbound instructions
Msg(kind, to, amount, token) ==
    [kind |-> kind, to |-> to, amount |-> amount, token |-> token]

\* CompetitionCoreActivateMsg {}.into_cosmos_msg(owner)
into_cosmos_msg(contract_addr) == Msg("activate", contract_addr, 0, 0)

RECURSIVE nft_msgs(_, _)
nft_msgs(tokens, to) ==
    IF tokens = {} THEN <<>>
    ELSE LET t == CHOOSE x \in tokens : \A y \in tokens : x <= y
         IN <<Msg("cw721", to, 1, t)>> \o nft_msgs(tokens \ {t}, to)

\* balance.transmit_all: one instruction per held component
transmit_all(b, to) ==
    (IF b.native > 0 THEN <<Msg("bank", to, b.native, 0)>> ELSE <<>>)
    \o (IF b.cw20 > 0 THEN <<Msg("cw20", to, b.cw20, 0)>> ELSE <<>>)
    \o nft_msgs(b.cw721, to)

----------------------------------------------------------------------------
\* The store as a value, so that handlers are functions from store to outcome

cur ==
    [BALANCE |-> BALANCE, DUE |-> DUE, IS_FUNDED |-> IS_FUNDED,
     IS_LOCKED |-> IS_LOCKED, TOTAL_BALANCE |-> TOTAL_BALANCE,
     PRESET_DISTRIBUTION |-> PRESET_DISTRIBUTION, owner |-> owner]

\* Ok(Response) with the writes committed
Ok(st, msgs) == [err |-> "", st |-> st, msgs |-> msgs]

\* Err(e): the transaction is reverted, no write and no message survives
Err(st, e) == [err |-> e, st |-> st, msgs |-> <<>>]

\* state.rs: is_fully_funded
is_fully_funded(st) == DOMAIN st.DUE = {}

\* state.rs: is_funded
is_funded(st, addr) == ~has(st.DUE, addr)

\* query.rs: is_locked
is_locked(st) == st.IS_LOCKED

\* cw_ownable::assert_owner
assert_owner(st, sender) == st.owner = Some(sender)

----------------------------------------------------------------------------
\* receive_balance

\* variant: the membership test is missing
none_due_unchecked(st, addr) == FALSE

\* execute.rs:188 the party must appear in DUE
none_due(st, addr) == ~has(st.DUE, addr)

\* variant: the due is compared with the deposit alone
deposit_balance_alone(st, addr, balance) == balance

\* execute.rs:193-195 the stored balance after the deposit (cumulative)
deposit_balance(st, addr, balance) ==
    checked_add(balance, load_or_default(st.BALANCE, addr))

\* variant: the new due is stored back even when it is empty
due_after_deposit_stored(st, addr, new_due) == save(st.DUE, addr, new_due)

\* execute.rs:201-217 the DUE map after the deposit
due_after_deposit(st, addr, new_due) ==
    IF is_empty(new_due) THEN remove(st.DUE, addr)
    ELSE save(st.DUE, addr, new_due)

\* execute.rs:204 IS_FUNDED is set when the due reaches empty
funded_after_deposit(st, addr, new_due) ==
    IF is_empty(new_due) THEN [x \in DOMAIN st.IS_FUNDED \cup {addr} |->
                                  IF x = addr THEN TRUE ELSE st.IS_FUNDED[x]]
    ELSE st.IS_FUNDED

\* execute.rs:201,207 the deposit completes the funding
completes_funding(due1, new_due) == is_empty(new_due) /\ DOMAIN due1 = {}

\* variant: completing the funding does not lock
lock_after_deposit_never(st, due1, new_due) == st.IS_LOCKED

\* execute.rs:207-209 lock if funded
lock_after_deposit(st, due1, new_due) ==
    IF completes_funding(due1, new_due) THEN TRUE ELSE st.IS_LOCKED

\* variant: every party whose due reaches empty activates the owner
activation_msgs_each(st, due1, new_due) ==
    IF is_empty(new_due) /\ st.owner # None
    THEN <<into_cosmos_msg(unwrap(st.owner))>>
    ELSE <<>>

\* execute.rs:210-213 the activation message for the owner, if any
activation_msgs(st, due1, new_due) ==
    IF completes_funding(due1, new_due) /\ st.owner # None
    THEN <<into_cosmos_msg(unwrap(st.owner))>>
    ELSE <<>>

\* execute.rs:220-222 TOTAL_BALANCE.update adds the `balance` binding in scope,
\* which line 193 rebound to the stored (cumulative) balance
total_after_deposit(total, balance) == checked_add(total, balance)

receive_balance(st, addr, balance_in) ==
    IF none_due(st, addr) THEN Err(st, "NoneDue")
    ELSE IF ~has(st.DUE, addr) THEN Err(st, "NotFound")
    ELSE
      LET balance == deposit_balance(st, addr, balance_in)
          due == st.DUE[addr]
      IN IF ~can_sub(due, balance) THEN Err(st, "Underflow")
         ELSE
           LET new_due == checked_sub(due, balance)
               due1 == due_after_deposit(st, addr, new_due)
           IN IF st.TOTAL_BALANCE = None THEN Err(st, "NotFound")
              ELSE Ok([st EXCEPT
                         !.BALANCE = save(st.BALANCE, addr, balance),
                         !.DUE = due1,
                         !.IS_FUNDED = funded_after_deposit(st, addr, new_due),
                         !.IS_LOCKED = lock_after_deposit(st, due1, new_due),
                         !.TOTAL_BALANCE =
                             Some(total_after_deposit(unwrap(st.TOTAL_BALANCE), balance))],
                      activation_msgs(st, due1, new_due))

----------------------------------------------------------------------------
\* inner_withdraw / withdraw

\* execute.rs:34-38 absent or empty balances are skipped
skips(st, addr) == ~has(st.BALANCE, addr) \/ is_empty(st.BALANCE[addr])

\* variant: the withdrawn balance is not owed again
due_after_withdraw_dropped(st, addr, balance) == st.DUE

\* execute.rs:60-65 the withdrawn balance is owed again
due_after_withdraw(st, addr, balance) ==
    IF ~has(st.DUE, addr) THEN save(st.DUE, addr, balance)
    ELSE save(st.DUE, addr, checked_add(st.DUE[addr], balance))

\* variant: the paid balance stays in the map
balance_after_withdraw_kept(st, addr) == st.BALANCE

\* execute.rs:55 the paid balance is removed
balance_after_withdraw(st, addr) == remove(st.BALANCE, addr)

\* execute.rs:32-68 one iteration of the loop; acc.total is the local total_balance
withdraw_one(acc, addr, is_processing) ==
    IF skips(acc.st, addr) THEN acc
    ELSE
      LET balance == acc.st.BALANCE[addr]
          msgs1 == acc.msgs \o transmit_all(balance, addr)
          st1 == [acc.st EXCEPT !.BALANCE = balance_after_withdraw(acc.st, addr)]
      IN IF is_processing THEN [acc EXCEPT !.st = st1, !.msgs = msgs1]
         ELSE IF ~can_sub(acc.total, balance) THEN [acc EXCEPT !.err = "Underflow"]
         ELSE [acc EXCEPT
                 !.total = checked_sub(acc.total, balance),
                 !.msgs = msgs1,
                 !.st = [st1 EXCEPT
                           !.IS_FUNDED = [x \in DOMAIN st1.IS_FUNDED \cup {addr} |->
                                             IF x = addr THEN FALSE ELSE st1.IS_FUNDED[x]],
                           !.DUE = due_after_withdraw(st1, addr, balance)]]

RECURSIVE withdraw_loop(_, _, _)
withdraw_loop(acc, addrs, is_processing) ==
    IF addrs = <<>> \/ acc.err # "" THEN acc
    ELSE withdraw_loop(withdraw_one(acc, Head(addrs), is_processing),
                       Tail(addrs), is_processing)

\* execute.rs:70-75 the total is saved, or removed by the settlement sweep
total_after_withdraw(total, is_processing) ==
    IF is_processing THEN None ELSE Some(total)

inner_withdraw(st, addrs, is_processing) ==
    IF ~is_processing /\ st.TOTAL_BALANCE = None THEN Err(st, "NotFound")
    ELSE
      LET total0 == IF is_processing THEN BalanceVerified_new
                    ELSE unwrap(st.TOTAL_BALANCE)
          acc == withdraw_loop([err |-> "", st |-> st, msgs |-> <<>>, total |-> total0],
                               addrs, is_processing)
      IN IF acc.err # "" THEN Err(st, acc.err)
         ELSE Ok([acc.st EXCEPT
                    !.TOTAL_BALANCE = total_after_withdraw(acc.total, is_processing)],
                 acc.msgs)

\* variant: the lock is not consulted
withdraw_locked_ignored(st) == FALSE

\* execute.rs:91-93
withdraw_locked(st) == is_locked(st)

withdraw(st, sender) ==
    IF withdraw_locked(st) THEN Err(st, "Locked")
    ELSE inner_withdraw(st, <<sender>>, FALSE)

----------------------------------------------------------------------------
\* set_distribution, lock

\* variant: the list replaces the whole override map
set_distribution_only(st, sender, distribution) ==
    Ok([st EXCEPT !.PRESET_DISTRIBUTION = [x \in {sender} |-> distribution]], <<>>)

\* execute.rs:109-126
set_distribution(st, sender, distribution) ==
    Ok([st EXCEPT !.PRESET_DISTRIBUTION =
            [x \in DOMAIN st.PRESET_DISTRIBUTION \cup {sender} |->
                IF x = sender THEN distribution ELSE st.PRESET_DISTRIBUTION[x]]],
       <<>>)

\* variant: the caller is not checked
lock_by_anyone(st, sender, value) == Ok([st EXCEPT !.IS_LOCKED = value], <<>>)

\* execute.rs:313-323
lock(st, sender, value) ==
    IF ~assert_owner(st, sender) THEN Err(st, "Unauthorized")
    ELSE Ok([st EXCEPT !.IS_LOCKED = value], <<>>)

----------------------------------------------------------------------------
\* The weighted split of the balance library (cw_balance::BalanceVerified::split)

MemberShare(addr, shares) == [addr |-> addr, shares |-> shares]
MemberBalance(addr, balance) == [addr |-> addr, balance |-> balance]

RECURSIVE total_shares(_)
total_shares(distribution) ==
    IF distribution = <<>> THEN 0
    ELSE Head(distribution).shares + total_shares(Tail(distribution))

\* floor(amount * weight / sum_of_weights)
share_of(amount, shares, total) == (amount * shares) \div total

floor_shares(b, distribution) ==
    [i \in 1..Len(distribution) |->
        MemberBalance(distribution[i].addr,
            [native |-> share_of(b.native, distribution[i].shares, total_shares(distribution)),
             cw20   |-> share_of(b.cw20, distribution[i].shares, total_shares(distribution)),
             cw721  |-> {}])]

RECURSIVE sum_balances(_)
sum_balances(members) ==
    IF members = <<>> THEN BalanceVerified_new
    ELSE checked_add(Head(members).balance, sum_balances(Tail(members)))

\* index of the first entry of addr in a list of member balances, 0 if none
position(members, addr) ==
    IF \E i \in 1..Len(members) : members[i].addr = addr
    THEN CHOOSE i \in 1..Len(members) :
            /\ members[i].addr = addr
            /\ \A j \in 1..(i - 1) : members[j].addr # addr
    ELSE 0

\* the residual of every component goes to the remainder recipient
split(b, distribution, remainder_addr) ==
    LET floors == floor_shares(b, distribution)
        remainders == checked_sub(b, sum_balances(floors))
        idx == position(floors, remainder_addr)
    IN IF is_empty(remainders) THEN floors
       ELSE IF idx # 0
            THEN [floors EXCEPT ![idx].balance = checked_add(@, remainders)]
            ELSE Append(floors, MemberBalance(remainder_addr, remainders))

----------------------------------------------------------------------------
\* distribute

\* execute.rs:277-279 / 282-286 BALANCE.save of each member balance in order
RECURSIVE save_all(_, _)
save_all(bal, members) ==
    IF members = <<>> THEN bal
    ELSE save_all(save(bal, Head(members).addr, Head(members).balance), Tail(members))

\* execute.rs:266-288 the balances written for one distributed amount
save_distributed(st, bal, distributed_amount) ==
    IF distributed_amount.addr \in DOMAIN st.PRESET_DISTRIBUTION
    THEN save_all(bal, split(distributed_amount.balance,
                             st.PRESET_DISTRIBUTION[distributed_amount.addr],
                             distributed_amount.addr))
    ELSE save(bal, distributed_amount.addr, distributed_amount.balance)

RECURSIVE save_distributed_all(_, _, _)
save_distributed_all(st, bal, amounts) ==
    IF amounts = <<>> THEN bal
    ELSE save_distributed_all(st, save_distributed(st, bal, Head(amounts)), Tail(amounts))

\* a split divides by the sum of the shares
split_fails(distribution) == total_shares(distribution) = 0

\* some preset that would be applied has no shares to divide by
preset_split_fails(st, amounts) ==
    \E i \in 1..Len(amounts) :
        /\ amounts[i].addr \in DOMAIN st.PRESET_DISTRIBUTION
        /\ split_fails(st.PRESET_DISTRIBUTION[amounts[i].addr])

\* variant: the enumeration stops after the first key
keys_first(m) ==
    IF SelectSeq(AddrOrder, LAMBDA k : k \in DOMAIN m) = <<>> THEN <<>>
    ELSE <<Head(SelectSeq(AddrOrder, LAMBDA k : k \in DOMAIN m))>>

\* Map::keys(.., Order::Ascending)
keys(m) == SelectSeq(AddrOrder, LAMBDA k : k \in DOMAIN m)

\* variant: the funding test is missing
distribute_error_unfunded(st, sender) ==
    IF ~assert_owner(st, sender) THEN "Unauthorized" ELSE ""

\* execute.rs:238-242 the caller is the owner and nothing is due
distribute_error(st, sender) ==
    IF ~assert_owner(st, sender) THEN "Unauthorized"
    ELSE IF ~is_fully_funded(st) THEN "NotFunded"
    ELSE ""

\* execute.rs:291-296
settle(st) ==
    [st EXCEPT !.IS_LOCKED = FALSE,
               !.DUE = EmptyMap,
               !.IS_FUNDED = [k \in {} |-> TRUE],
               !.PRESET_DISTRIBUTION = [k \in {} |-> <<>>]]

\* distribution is None (an empty set) or Some(list)
distribute(st, sender, distribution, remainder_addr) ==
    IF distribute_error(st, sender) # "" THEN Err(st, distribute_error(st, sender))
    ELSE IF distribution = None
         THEN LET r == inner_withdraw(settle(st), keys(st.BALANCE), TRUE)
              IN IF r.err # "" THEN Err(st, r.err) ELSE r
    ELSE IF st.TOTAL_BALANCE = None THEN Err(st, "NotFound")
    ELSE IF split_fails(unwrap(distribution)) THEN Err(st, "DivideByZero")
    ELSE
      LET amounts == split(unwrap(st.TOTAL_BALANCE), unwrap(distribution), remainder_addr)
      IN IF preset_split_fails(st, amounts) THEN Err(st, "DivideByZero")
         ELSE
           LET bal == save_distributed_all(st, EmptyMap, amounts)
               st1 == settle([st EXCEPT !.BALANCE = bal])
               r == inner_withdraw(st1, keys(bal), TRUE)
           IN IF r.err # "" THEN Err(st, r.err) ELSE r

----------------------------------------------------------------------------
\* Inputs

Bundles ==
    [native : 0..MaxNative, cw20 : Cw20Amounts, cw721 : SUBSET TokenIds]

\* what instantiate may record as owed by one party: native coins only, native
\* coins with a cw20 amount, or a token
DueChoices ==
    { [native |-> MaxNative, cw20 |-> 0, cw721 |-> {}],
      [native |-> 1, cw20 |-> 1, cw721 |-> {}],
      [native |-> 0, cw20 |-> 0, cw721 |-> TokenIds] }

\* parties that register an override
OverrideSenders == {"a", "b"}

\* override lists a party may register
OverrideChoices ==
    { <<MemberShare("b", 1), MemberShare(Core, 1)>> }

\* distributions the owner may settle with
DistributionChoices ==
    { <<MemberShare("a", 1)>>,
      <<MemberShare("a", 1), MemberShare("b", 1)>>,
      <<MemberShare("a", 1), MemberShare("b", 1), MemberShare(Core, 1)>>,
      <<MemberShare("a", 2), MemberShare("a", 1)>> }

\* the messages of a Distribute call: the distribution, if any, and the
\* remainder recipient
DistributeInputs ==
    ({None} \cup {Some(d) : d \in DistributionChoices}) \X Addrs

\* tokens the escrow currently holds for some party
held_tokens == UNION {BALANCE[k].cw721 : k \in DOMAIN BALANCE}

----------------------------------------------------------------------------
\* The state machine

\* the assets a list of outbound instructions moves out of the escrow
RECURSIVE sum_of_msgs(_)
sum_of_msgs(msgs) ==
    IF msgs = <<>> THEN BalanceVerified_new
    ELSE LET m == Head(msgs)
         IN checked_add(
              [native |-> IF m.kind = "bank" THEN m.amount ELSE 0,
               cw20   |-> IF m.kind = "cw20" THEN m.amount ELSE 0,
               cw721  |-> IF m.kind = "cw721" THEN {m.token} ELSE {}],
              sum_of_msgs(Tail(msgs)))

\* number of units of each asset class in a bundle
units(b) == [native |-> b.native, cw20 |-> b.cw20, cw721 |-> Cardinality(b.cw721)]

\* the assets the escrow address owns after a call: what it owned, plus the
\* funds and tokens that came with an accepted call, less what the returned
\* instructions send away
custody_after(funds_in, r) ==
    LET received == IF r.err = "" THEN units(funds_in) ELSE units(BalanceVerified_new)
        sent == units(sum_of_msgs(r.msgs))
    IN [native |-> custody.native + received.native - sent.native,
        cw20   |-> custody.cw20 + received.cw20 - sent.cw20,
        cw721  |-> custody.cw721 + received.cw721 - sent.cw721]

Response(op, sender, r) ==
    [op |-> op, sender |-> sender, err |-> r.err, msgs |-> r.msgs]

\* commit the outcome of a call: its writes (none on error) and its response
Commit(op, sender, funds_in, outcome) ==
  \E r \in {outcome} :
    /\ BALANCE' = r.st.BALANCE
    /\ DUE' = r.st.DUE
    /\ IS_FUNDED' = r.st.IS_FUNDED
    /\ IS_LOCKED' = r.st.IS_LOCKED
    /\ TOTAL_BALANCE' = r.st.TOTAL_BALANCE
    /\ PRESET_DISTRIBUTION' = r.st.PRESET_DISTRIBUTION
    /\ response' = Response(op, sender, r)
    /\ custody' = custody_after(funds_in, r)
    /\ r.st.TOTAL_BALANCE # None => unwrap(r.st.TOTAL_BALANCE).native <= MaxTotal
    /\ UNCHANGED <<INITIAL_DUE, owner, league>>

\* instantiate: the dues are recorded and their parties marked unfunded, nothing
\* is held, the escrow is unlocked
Init ==
    /\ \E parties \in SUBSET DueParties : DUE \in [parties -> DueChoices]
    /\ INITIAL_DUE = DUE
    /\ BALANCE = EmptyMap
    /\ IS_FUNDED = [k \in DOMAIN DUE |-> FALSE]
    /\ IS_LOCKED = FALSE
    /\ TOTAL_BALANCE = Some(BalanceVerified_new)
    /\ PRESET_DISTRIBUTION = [k \in {} |-> <<>>]
    /\ owner \in {None, Some(Core)}
    /\ response = [op |-> "instantiate", sender |-> Core, err |-> "", msgs |-> <<>>]
    /\ custody = units(BalanceVerified_new)
    /\ league_idle

\* execute.rs:129-137
ReceiveNative ==
    \E sender \in Addrs, funds \in 0..MaxNative :
        \E balance \in {[native |-> funds, cw20 |-> 0, cw721 |-> {}]} :
            Commit("receive_native", sender, balance,
                   receive_balance(cur, sender, balance))

\* execute.rs:140-158
ReceiveCw20 ==
    \E sender \in Addrs, funds \in AttachedFunds, amount \in Cw20Amounts \ {0} :
        \E balance \in {[native |-> funds, cw20 |-> amount, cw721 |-> {}]} :
            Commit("receive_cw20", sender, balance,
                   receive_balance(cur, sender, balance))

\* execute.rs:161-179; a collection only notifies for a token the escrow did not hold
ReceiveNft ==
    \E sender \in Addrs, funds \in AttachedFunds, token_id \in TokenIds \ held_tokens :
        \E balance \in {[native |-> funds, cw20 |-> 0, cw721 |-> {token_id}]} :
            Commit("receive_cw721", sender, balance,
                   receive_balance(cur, sender, balance))

Withdraw ==
    \E sender \in Addrs :
        Commit("withdraw", sender, BalanceVerified_new, withdraw(cur, sender))

SetDistribution ==
    \E sender \in OverrideSenders, distribution \in OverrideChoices :
        Commit("set_distribution", sender, BalanceVerified_new,
               set_distribution(cur, sender, distribution))

Lock ==
    \E sender \in Addrs, value \in BOOLEAN :
        Commit("lock", sender, BalanceVerified_new, lock(cur, sender, value))

\* execute.rs:232-310; a call that is refused at lines 238-242 is refused
\* whatever its message, so one message stands for all of them
Distribute ==
    \E sender \in Addrs :
        \E input \in IF distribute_error(cur, sender) = ""
                      THEN DistributeInputs ELSE {<<None, sender>>} :
            Commit(IF input[1] = None THEN "distribute_none" ELSE "distribute",
                   sender, BalanceVerified_new,
                   distribute(cur, sender, input[1], input[2]))

Next ==
    \/ ReceiveNative
    \/ ReceiveCw20
    \/ ReceiveNft
    \/ Withdraw
    \/ SetDistribution
    \/ Lock
    \/ Distribute

Spec == Init /\ [][Next]_vars

----------------------------------------------------------------------------
\* Helpers of the properties

DepositOps == {"receive_native", "receive_cw20", "receive_cw721"}
DistributeOps == {"distribute", "distribute_none"}

RECURSIVE sum_of(_, _)
sum_of(m, ks) ==
    IF ks = <<>> THEN BalanceVerified_new
    ELSE checked_add(m[Head(ks)], sum_of(m, Tail(ks)))

\* component-wise sum of all BALANCE entries
sum_of_balances == sum_of(BALANCE, keys(BALANCE))

is_activation(m) == m.kind = "activate"

activations(msgs) == SelectSeq(msgs, is_activation)

before_settlement == TOTAL_BALANCE # None

store_unchanged == UNCHANGED store

----------------------------------------------------------------------------
\* C1: before settlement the component-wise sum of all BALANCE entries equals
\* TOTAL_BALANCE, also after several partial deposits by the same party.
C1_TotalIsSumOfBalances ==
    before_settlement => sum_of_balances = unwrap(TOTAL_BALANCE)

\* C2: before settlement, for every party with an initial due, the due plus the
\* balance of the party (absent entries counted as empty) is the amount the
\* party originally owed.
C2_DuePlusBalanceIsOwed ==
    before_settlement =>
        \A p \in DOMAIN INITIAL_DUE :
            checked_add(load_or_default(DUE, p), load_or_default(BALANCE, p))
                = INITIAL_DUE[p]

\* C3: no DUE entry is ever stored as an empty bundle; a party whose due
\* reaches empty is removed from the map.
C3_NoEmptyDue == \A p \in DOMAIN DUE : ~is_empty(DUE[p])

\* a deposit has paid off one party while another still owes a part
C3_Witness ==
    /\ response.op \in DepositOps /\ response.err = ""
    /\ ~has(DUE, response.sender)
    /\ \E p \in DOMAIN DUE : has(BALANCE, p) /\ DUE[p] # INITIAL_DUE[p]

\* C4: is_fully_funded is exactly emptiness of DUE, and a successful deposit
\* that removes the last DUE entry sets IS_LOCKED and, when an owner is
\* configured, attaches exactly one activation message addressed to it.
C4_FundingLocksAndActivates ==
    [][ /\ is_fully_funded(cur)' <=> (DOMAIN DUE' = {})
        /\ ( /\ response'.op \in DepositOps /\ response'.err = ""
             /\ DOMAIN DUE # {} /\ DOMAIN DUE' = {} )
           => /\ IS_LOCKED'
              /\ owner # None =>
                    response'.msgs = <<into_cosmos_msg(unwrap(owner))>> ]_vars

\* the second of two parties has just completed the funding
C4_Witness ==
    /\ response.op \in DepositOps /\ response.err = ""
    /\ DOMAIN DUE = {} /\ DOMAIN INITIAL_DUE = DueParties
    /\ IS_LOCKED
    /\ response.msgs = <<into_cosmos_msg(Core)>>

\* C5: an activation is emitted only by a deposit that takes DUE from
\* non-empty to empty; a deposit leaving any DUE entry emits nothing and leaves
\* IS_LOCKED alone; DUE leaves emptiness only by a withdrawal, so two
\* activations are separated by a withdrawal that re-opened an obligation.
C5_ActivationOncePerFunding ==
    [][ /\ activations(response'.msgs) # <<>>
           => /\ response'.op \in DepositOps /\ response'.err = ""
              /\ DOMAIN DUE # {} /\ DOMAIN DUE' = {}
              /\ Len(activations(response'.msgs)) = 1
        /\ (response'.op \in DepositOps /\ DOMAIN DUE' # {})
           => /\ response'.msgs = <<>>
              /\ IS_LOCKED' = IS_LOCKED
        /\ (DOMAIN DUE = {} /\ DOMAIN DUE' # {})
           => response'.op = "withdraw" /\ response'.err = "" ]_vars

\* one party is funded, the other still owes, nothing was emitted
C5_Witness ==
    /\ response.op \in DepositOps /\ response.err = ""
    /\ ~has(DUE, response.sender) /\ has(INITIAL_DUE, response.sender)
    /\ DOMAIN DUE # {}
    /\ response.msgs = <<>>
    /\ owner # None

\* C6: a deposit of any kind from a party without a DUE entry, also after full
\* funding or settlement, returns NoneDue and changes nothing.
C6_NoneDue ==
    [][ (response'.op \in DepositOps /\ ~has(DUE, response'.sender))
        => /\ response'.err = "NoneDue"
           /\ response'.msgs = <<>>
           /\ store_unchanged ]_vars

\* a token deposit rejected after settlement
C6_Witness ==
    /\ response.op = "receive_cw721" /\ response.err = "NoneDue"
    /\ ~before_settlement
    /\ has(INITIAL_DUE, response.sender)

\* C7: a Withdraw while IS_LOCKED is set, by full funding or by the owner,
\* returns Locked, emits nothing and changes nothing.
C7_WithdrawWhileLocked ==
    [][ (response'.op = "withdraw" /\ IS_LOCKED)
        => /\ response'.err = "Locked"
           /\ response'.msgs = <<>>
           /\ store_unchanged ]_vars

\* a holder is refused while the owner has locked an escrow that is not funded
C7_Witness ==
    /\ response.op = "withdraw" /\ response.err = "Locked"
    /\ has(BALANCE, response.sender) /\ ~is_empty(BALANCE[response.sender])
    /\ DOMAIN DUE # {}

\* C8: whenever the escrow is not locked, before or after settlement, a
\* Withdraw by a party with an absent or empty balance succeeds, changes
\* nothing and emits nothing.
C8_WithdrawNothing ==
    [][ (response'.op = "withdraw" /\ ~IS_LOCKED /\ skips(cur, response'.sender))
        => /\ response'.err = ""
           /\ response'.msgs = <<>>
           /\ store_unchanged ]_vars

\* C9: a party that deposits its full due and then withdraws while the escrow
\* is not locked has its DUE entry back at the pre-deposit value, no BALANCE
\* entry, TOTAL_BALANCE at its pre-deposit value, and receives transfer
\* messages that sum to the deposit.  (The deposit is one the asset contracts
\* can deliver: its tokens are not already held by the escrow.)
C9_UnfundRoundTrip ==
    \A p \in DOMAIN DUE :
        \E deposited \in {receive_balance(cur, p, DUE[p])} :
            (deposited.err = "" /\ DUE[p].cw721 \cap held_tokens = {}) =>
                \E unlocked \in {[deposited.st EXCEPT !.IS_LOCKED = FALSE]} :
                \E withdrawn \in {withdraw(unlocked, p)} :
                    /\ withdrawn.err = ""
                    /\ has(withdrawn.st.DUE, p) /\ withdrawn.st.DUE[p] = DUE[p]
                    /\ ~has(withdrawn.st.BALANCE, p)
                    /\ withdrawn.st.TOTAL_BALANCE = TOTAL_BALANCE
                    /\ sum_of_msgs(withdrawn.msgs) = DUE[p]
                    /\ \A i \in 1..Len(withdrawn.msgs) : withdrawn.msgs[i].to = p

\* a party has withdrawn its whole due again and the escrow holds nothing
C9_Witness ==
    /\ response.op = "withdraw" /\ response.err = ""
    /\ has(DUE, response.sender)
    /\ DUE[response.sender] = INITIAL_DUE[response.sender]
    /\ sum_of_msgs(response.msgs) = INITIAL_DUE[response.sender]
    /\ ~has(BALANCE, response.sender)
    /\ TOTAL_BALANCE = Some(BalanceVerified_new)

\* C10: Distribute succeeds only for the owner with an empty DUE map; another
\* caller gets Unauthorized, the owner with any DUE entry gets NotFunded, and
\* in both cases nothing changes and nothing is emitted.
C10_DistributeGuards ==
    [][ response'.op \in DistributeOps
        => /\ owner # Some(response'.sender)
              => /\ response'.err = "Unauthorized"
                 /\ response'.msgs = <<>> /\ store_unchanged
           /\ (owner = Some(response'.sender) /\ DOMAIN DUE # {})
              => /\ response'.err = "NotFunded"
                 /\ response'.msgs = <<>> /\ store_unchanged
           /\ response'.err = ""
              => owner = Some(response'.sender) /\ DOMAIN DUE = {} ]_vars

\* the owner is refused while deposits are held and a due is outstanding
C10_Witness ==
    /\ response.op \in DistributeOps /\ response.err = "NotFunded"
    /\ DOMAIN BALANCE # {} /\ DOMAIN DUE # {}

----------------------------------------------------------------------------
\* Settlement

\* a Distribute call has just succeeded
distributed == response'.op \in DistributeOps /\ response'.err = ""

\* the assets the instructions of a response send to one address
paid_to(msgs, addr) == sum_of_msgs(SelectSeq(msgs, LAMBDA m : m.to = addr))

\* C11: after any successful Distribute, in either mode, IS_LOCKED is false,
\* DUE and every override are cleared, the BALANCE map is empty and
\* TOTAL_BALANCE is removed.
C11_SettledStoreIsCleared ==
    [][ distributed
        => /\ ~IS_LOCKED'
           /\ DOMAIN DUE' = {}
           /\ DOMAIN PRESET_DISTRIBUTION' = {}
           /\ DOMAIN BALANCE' = {}
           /\ TOTAL_BALANCE' = None ]_vars

\* C12: Distribute without a distribution pays every BALANCE holder exactly
\* its balance, whatever the overrides and the remainder recipient, and emits
\* nothing else.
C12_NoDistributionPaysBalances ==
    [][ (response'.op = "distribute_none" /\ response'.err = "")
        => /\ \A addr \in Addrs :
                paid_to(response'.msgs, addr) = load_or_default(BALANCE, addr)
           /\ \A i \in 1..Len(response'.msgs) :
                /\ response'.msgs[i].kind # "activate"
                /\ response'.msgs[i].to \in DOMAIN BALANCE ]_vars

\* two holders of different assets were paid their balances while an override
\* was registered
C12_Witness ==
    /\ response.op = "distribute_none" /\ response.err = ""
    /\ DOMAIN INITIAL_DUE = DueParties
    /\ paid_to(response.msgs, "a") = INITIAL_DUE["a"]
    /\ paid_to(response.msgs, "b") = INITIAL_DUE["b"]
    /\ INITIAL_DUE["a"] # INITIAL_DUE["b"]

\* the lists and remainder recipients a settlement with a distribution may use
SplitInputs == DistributionChoices \X Addrs

RECURSIVE floor_sum(_, _, _, _)
\* the sum of floor(amount * weight / sum_of_weights) over the entries of the
\* list that name a recipient in `addrs`
floor_sum(amount, distribution, all, addrs) ==
    IF distribution = <<>> THEN 0
    ELSE (IF Head(distribution).addr \in addrs
          THEN (amount * Head(distribution).shares) \div total_shares(all)
          ELSE 0)
         + floor_sum(amount, Tail(distribution), all, addrs)

\* what the weighted split rule gives one address for one divisible amount:
\* its floors, and the whole residual if it is the remainder recipient
rule_amount(amount, distribution, remainder_addr, addr) ==
    floor_sum(amount, distribution, distribution, {addr})
    + (IF addr = remainder_addr
       THEN amount - floor_sum(amount, distribution, distribution, Addrs)
       ELSE 0)

\* the same for a bundle; tokens are not divisible and go to the remainder
\* recipient
rule_share(b, distribution, remainder_addr, addr) ==
    [native |-> rule_amount(b.native, distribution, remainder_addr, addr),
     cw20   |-> rule_amount(b.cw20, distribution, remainder_addr, addr),
     cw721  |-> IF addr = remainder_addr THEN b.cw721 ELSE {}]

RECURSIVE rule_sum(_, _, _)
\* what one address is due from a list of allocations when the allocation of
\* a recipient with an override is divided by the rule among its override list
rule_sum(st, amounts, addr) ==
    IF amounts = <<>> THEN BalanceVerified_new
    ELSE checked_add(
           IF Head(amounts).addr \in DOMAIN st.PRESET_DISTRIBUTION
           THEN rule_share(Head(amounts).balance,
                           st.PRESET_DISTRIBUTION[Head(amounts).addr],
                           Head(amounts).addr, addr)
           ELSE IF Head(amounts).addr = addr THEN Head(amounts).balance
                ELSE BalanceVerified_new,
           rule_sum(st, Tail(amounts), addr))

\* C13: with a distribution and no override, every listed recipient is paid,
\* per component, floor(total * weight / sum of weights) of TOTAL_BALANCE and
\* the remainder recipient, listed or not, is paid the whole residual.
C13_SplitByWeights ==
    (before_settlement /\ DOMAIN PRESET_DISTRIBUTION = {}) =>
        \A input \in SplitInputs :
            \E r \in {distribute(cur, Core, Some(input[1]), input[2])} :
                r.err = "" =>
                    \A addr \in Addrs :
                        paid_to(r.msgs, addr)
                            = rule_share(unwrap(TOTAL_BALANCE), input[1], input[2], addr)

\* C14: the allocation of a recipient with a registered override is divided
\* among the override list by the same rule, the recipient itself taking the
\* residual, and the sub-shares are paid instead of the allocation.
C14_OverrideSplitsAllocation ==
    (before_settlement /\ DOMAIN PRESET_DISTRIBUTION # {}) =>
        \A input \in SplitInputs :
            \E r \in {distribute(cur, Core, Some(input[1]), input[2])} :
                r.err = "" =>
                    \A addr \in Addrs :
                        paid_to(r.msgs, addr)
                            = rule_sum(cur, split(unwrap(TOTAL_BALANCE), input[1], input[2]),
                                       addr)

\* C15: the transfer messages of a successful Distribute with a distribution
\* sum, per component, to the TOTAL_BALANCE held before the call, for every
\* list, remainder recipient and set of overrides.
C15_SettlementConservesTotal ==
    [][ (response'.op = "distribute" /\ response'.err = "")
        => sum_of_msgs(response'.msgs) = unwrap(TOTAL_BALANCE) ]_vars

----------------------------------------------------------------------------
\* Overrides and the lock

\* override lists a SetDistribution message may carry
OverrideLists == OverrideChoices \cup DistributionChoices \cup {<<>>}

\* C16: SetDistribution succeeds for any caller in any funding or lock state,
\* replaces only the caller's own override list and leaves BALANCE, DUE,
\* TOTAL_BALANCE, IS_LOCKED and every other party's override unchanged.
C16_SetDistributionFrame ==
    /\ [] \A sender \in Addrs, distribution \in OverrideLists :
             \E r \in {set_distribution(cur, sender, distribution)} :
                /\ r.err = "" /\ r.msgs = <<>>
                /\ has(r.st.PRESET_DISTRIBUTION, sender)
                /\ r.st.PRESET_DISTRIBUTION[sender] = distribution
                /\ \A other \in Addrs \ {sender} :
                     /\ has(r.st.PRESET_DISTRIBUTION, other)
                            <=> has(PRESET_DISTRIBUTION, other)
                     /\ has(PRESET_DISTRIBUTION, other)
                            => r.st.PRESET_DISTRIBUTION[other] = PRESET_DISTRIBUTION[other]
                /\ r.st = [cur EXCEPT !.PRESET_DISTRIBUTION = r.st.PRESET_DISTRIBUTION]
    /\ [][ response'.op = "set_distribution"
           => /\ response'.err = ""
              /\ UNCHANGED <<BALANCE, DUE, INITIAL_DUE, IS_FUNDED, IS_LOCKED,
                             TOTAL_BALANCE, owner>> ]_vars

\* the second party registered its override while the funded escrow was locked
C16_Witness ==
    /\ response.op = "set_distribution" /\ response.err = ""
    /\ DOMAIN PRESET_DISTRIBUTION = OverrideSenders
    /\ IS_LOCKED /\ DOMAIN DUE = {} /\ DOMAIN BALANCE # {}

\* C17: Lock by the owner sets IS_LOCKED to the supplied value and changes
\* nothing else; by anyone else it fails with the authorization error and
\* changes nothing.
C17_LockOwnerOnly ==
    /\ [] \A sender \in Addrs, value \in BOOLEAN :
             \E r \in {lock(cur, sender, value)} :
                IF owner = Some(sender)
                THEN r = Ok([cur EXCEPT !.IS_LOCKED = value], <<>>)
                ELSE r = Err(cur, "Unauthorized")
    /\ [][ response'.op = "lock"
           => /\ UNCHANGED <<BALANCE, DUE, INITIAL_DUE, IS_FUNDED, TOTAL_BALANCE,
                             PRESET_DISTRIBUTION, owner>>
              /\ response'.msgs = <<>>
              /\ owner # Some(response'.sender)
                 => response'.err = "Unauthorized" /\ IS_LOCKED' = IS_LOCKED
              /\ owner = Some(response'.sender) => response'.err = "" ]_vars

\* the owner has unlocked an escrow that full funding had locked
C17_Witness ==
    /\ response.op = "lock" /\ response.err = ""
    /\ ~IS_LOCKED /\ DOMAIN DUE = {} /\ DOMAIN INITIAL_DUE # {}
    /\ before_settlement

----------------------------------------------------------------------------
\* Funding and custody

\* C18: whenever the escrow is fully funded before settlement, every party's
\* BALANCE is the full amount the party originally owed.
C18_FundedMeansPaidInFull ==
    (before_settlement /\ DOMAIN DUE = {}) =>
        \A p \in DOMAIN INITIAL_DUE : load_or_default(BALANCE, p) = INITIAL_DUE[p]

\* C19: the assets sent away by the transfer messages of Withdraw and
\* Distribute never exceed, in any component, the deposits accepted.
C19_NeverPaysMoreThanReceived ==
    custody.native >= 0 /\ custody.cw20 >= 0 /\ custody.cw721 >= 0

\* C20: a deposit that makes the cumulative balance of the party exceed, in
\* any component, its DUE entry fails with the error of the checked
\* subtraction and the call is aborted: nothing changes, nothing is emitted.
C20_OverpaymentAborts ==
    /\ [] \A p \in DOMAIN DUE, b \in Bundles :
             ~can_sub(DUE[p], checked_add(b, load_or_default(BALANCE, p)))
                => receive_balance(cur, p, b) = Err(cur, "Underflow")
    /\ [][ (response'.op \in DepositOps /\ response'.err = "Underflow")
           => store_unchanged /\ response'.msgs = <<>> /\ custody' = custody ]_vars

\* a party that holds a part of its due was refused a deposit larger than the
\* rest
C20_Witness ==
    /\ response.op \in DepositOps /\ response.err = "Underflow"
    /\ has(DUE, response.sender) /\ has(BALANCE, response.sender)
    /\ ~is_empty(BALANCE[response.sender])

----------------------------------------------------------------------------
\* After a withdrawal, after settlement

\* a direct Withdraw has just paid out a non-empty balance
withdrawn == response.op = "withdraw" /\ response.err = "" /\ response.msgs # <<>>

\* C21: a successful direct Withdraw of a non-empty balance leaves the party
\* with a DUE entry, is_funded(party) and is_fully_funded false and every
\* Distribute failing (with NotFunded for the owner), and Distribute keeps
\* failing while the party's deposits since are short of that DUE entry.
C21_WithdrawUnfunds ==
    withdrawn =>
        /\ has(DUE, response.sender)
        /\ ~is_funded(cur, response.sender)
        /\ ~IS_FUNDED[response.sender]
        /\ ~is_fully_funded(cur)
        /\ \A sender \in Addrs, input \in DistributeInputs :
              distribute(cur, sender, input[1], input[2])
                = Err(cur, IF owner = Some(sender) THEN "NotFunded" ELSE "Unauthorized")
        /\ \A b1 \in Bundles, b2 \in Bundles :
              \E r1 \in {receive_balance(cur, response.sender, b1)} :
                \E r2 \in {receive_balance(r1.st, response.sender, b2)} :
                  (r1.err = "" /\ r2.err = "" /\ checked_add(b1, b2) # DUE[response.sender])
                     => distribute_error(r2.st, Core) # ""

\* the escrow has been settled: the total is removed, nothing is due and no
\* balance is left to pay
settled ==
    /\ TOTAL_BALANCE = None
    /\ DOMAIN DUE = {}
    /\ \A k \in DOMAIN BALANCE : is_empty(BALANCE[k])

\* C22: a successful Distribute settles the escrow, and once it is settled no
\* operation, a repeated Distribute included, emits a transfer or an
\* activation, every deposit is rejected with NoneDue, and it stays settled.
C22_SettlementPaysOnce ==
    [][ /\ distributed => settled'
        /\ settled
           => /\ settled'
              /\ response'.msgs = <<>>
              /\ custody' = custody
              /\ response'.op \in DepositOps => response'.err = "NoneDue" ]_vars

\* Distribute was repeated on an escrow that two parties had funded, and paid
\* nothing
C22_Witness ==
    /\ response.op = "distribute_none" /\ response.err = "" /\ response.msgs = <<>>
    /\ DOMAIN INITIAL_DUE = DueParties
    /\ settled

----------------------------------------------------------------------------
\* arena-league-module: instantiate_rounds

\* league execute.rs:36-40
rounds_count(n) == IF n % 2 = 0 THEN n - 1 ELSE n

\* league execute.rs:41
matches_per_round(n) == (rounds_count(n) + 1) \div 2

\* league execute.rs:44 (1..=rounds_count + 1).collect()
initial_team_indexes(n) == [i \in 1..(rounds_count(n) + 1) |-> i]

\* league execute.rs:49-50 the m-th candidate pairing, m counted from 0: the
\* indexes at positions m and len - 1 - m of the vector
candidate(indexes, m) == <<indexes[m + 1], indexes[Len(indexes) - m]>>

\* league execute.rs:51 both indexes address a team
in_range(pair, n) == pair[1] < n /\ pair[2] < n

\* league execute.rs:47-57 the filter_map over 0..matches_per_round
round_pairings(indexes, n) ==
    SelectSeq([m \in 1..matches_per_round(n) |-> candidate(indexes, m - 1)],
              LAMBDA pair : in_range(pair, n))

\* league execute.rs:59 slice::rotate_right(1): the last element comes first
rotate_right(s) ==
    IF s = <<>> THEN s ELSE <<s[Len(s)]>> \o SubSeq(s, 1, Len(s) - 1)

\* league execute.rs:29-32 the validated teams, named by their position in the
\* supplied list
team_addresses(n) == [i \in 0..(n - 1) |-> i]

\* league execute.rs:100-106
Match(team_1, team_2, id, number) ==
    [team_1 |-> team_1, team_2 |-> team_2, wager_id |-> id, match_number |-> number]

\* league execute.rs:98-109 the matches of one round, numbered on from the
\* running wager id and match number
matches_of(pairings, n, id, number) ==
    [k \in 1..Len(pairings) |->
        Match(team_addresses(n)[pairings[k][1]], team_addresses(n)[pairings[k][2]],
              id + (k - 1), number + (k - 1))]

\* the call starts with the supplied teams and the competition count queried
\* from the wager module; the escrow is not involved
LeagueInit ==
    /\ team_count \in 2..MaxTeams
    /\ team_indexes = initial_team_indexes(team_count)
    /\ rounds = <<>>
    /\ wager_id \in 0..MaxWagerId
    /\ match_number = 0
    /\ ROUNDS = <<>>
    /\ pc = "pairing"
    /\ DUE = EmptyMap
    /\ INITIAL_DUE = DUE
    /\ BALANCE = EmptyMap
    /\ IS_FUNDED = [k \in {} |-> FALSE]
    /\ IS_LOCKED = FALSE
    /\ TOTAL_BALANCE = Some(BalanceVerified_new)
    /\ PRESET_DISTRIBUTION = [k \in {} |-> <<>>]
    /\ owner = Some(Core)
    /\ response = [op |-> "instantiate", sender |-> Core, err |-> "", msgs |-> <<>>]
    /\ custody = units(BalanceVerified_new)

\* league execute.rs:46-60 one iteration of the pairing loop
GenerateRound ==
    /\ pc = "pairing"
    /\ rounds' = Append(rounds, round_pairings(team_indexes, team_count))
    /\ team_indexes' = rotate_right(team_indexes)
    /\ pc' = IF Len(rounds') = rounds_count(team_count) THEN "saving" ELSE "pairing"
    /\ UNCHANGED <<team_count, wager_id, match_number, ROUNDS, store, response, custody>>

\* league execute.rs:96-141 one iteration of the saving loop: the round
\* ROUNDS will hold is the one at index Len(ROUNDS) of `rounds`
SaveRound ==
    /\ pc = "saving"
    /\ \E round_pairing \in {rounds[Len(ROUNDS) + 1]} :
          /\ ROUNDS' = Append(ROUNDS,
                 [round_number |-> Len(ROUNDS),
                  matches |-> matches_of(round_pairing, team_count, wager_id, match_number)])
          /\ wager_id' = wager_id + Len(round_pairing)
          /\ match_number' = match_number + Len(round_pairing)
    /\ pc' = IF Len(ROUNDS') = Len(rounds) THEN "done" ELSE "saving"
    /\ UNCHANGED <<team_count, team_indexes, rounds, store, response, custody>>

LeagueNext ==
    \/ GenerateRound
    \/ SaveRound

LeagueSpec == LeagueInit /\ [][LeagueNext]_vars

\* the matches of round r that team t plays in
matches_with(r, t) ==
    {k \in 1..Len(ROUNDS[r].matches) :
        t \in {ROUNDS[r].matches[k].team_1, ROUNDS[r].matches[k].team_2}}

\* the matches of all rounds between teams i and j
matches_between(i, j) ==
    {rk \in {<<r, k>> : r \in 1..Len(ROUNDS), k \in 1..MaxTeams} :
        /\ rk[2] <= Len(ROUNDS[rk[1]].matches)
        /\ {ROUNDS[rk[1]].matches[rk[2]].team_1, ROUNDS[rk[1]].matches[rk[2]].team_2} = {i, j}}

\* C23: the rounds instantiate_rounds generates are a round-robin schedule:
\* every pair of distinct teams meets in exactly one match, and no team has
\* two matches in one round.
C23_RoundRobin ==
    pc = "done" =>
        /\ \A i \in 0..(team_count - 1), j \in 0..(team_count - 1) :
              i < j => Cardinality(matches_between(i, j)) = 1
        /\ \A r \in 1..Len(ROUNDS), t \in 0..(team_count - 1) :
              Cardinality(matches_with(r, t)) <= 1

====
